---- MODULE Spec2Model ----
(***************************************************************************)
(* Model of the document analyzer: DocumentReader (document_reader.py),    *)
(* TextAnalyzer (text_analyzer.py), AIProcessor (ai_processor.py) and the  *)
(* desktop window DocumentAnalyzerGUI (gui.py).                            *)
(*                                                                         *)
(* Specifications: Spec (the processor and its calls), SpecSummary (the    *)
(* processor on texts of several sentences), SpecAnalyzer (one analyzer    *)
(* object and its calls), SpecReader (the reader), SpecGui (the window     *)
(* and its analysis threads).                                              *)
(*                                                                         *)
(* Strings are run-length encoded: a text is a sequence of runs            *)
(* [c |-> character, n |-> number of repetitions], adjacent runs having    *)
(* different characters, so that the character limits of the code (200,    *)
(* 1024) keep their value.  Letters are word characters (\w), " " and the  *)
(* newline are whitespace, "." and ":" are punctuation that clean_text     *)
(* keeps, "#" is a character that clean_text strips.                       *)
(***************************************************************************)
EXTENDS Integers, Sequences, FiniteSets, TLC

Run(c, n) == [c |-> c, n |-> n]

\* the string spelled by a sequence of characters
RECURSIVE Norm(_)
Str(chars) == Norm([i \in 1..Len(chars) |-> Run(chars[i], 1)])

\* ------------------------------------------------------------------ bounds
MaxRuns == 3
MaxWords == 3
MaxSentences == 4
MaxAnalyses == 2
MaxPages == 2

\* ------------------------------------------------- string primitives (str)
Norm(t) ==
  IF Len(t) <= 1 THEN t
  ELSE IF t[1].c = t[2].c
       THEN Norm(<<Run(t[1].c, t[1].n + t[2].n)>> \o SubSeq(t, 3, Len(t)))
       ELSE <<t[1]>> \o Norm(Tail(t))

\* len(text)
RECURSIVE StrLen(_)
StrLen(t) == IF t = <<>> THEN 0 ELSE t[1].n + StrLen(Tail(t))

\* text[:k]
RECURSIVE Prefix(_, _)
Prefix(t, k) ==
  IF t = <<>> \/ k <= 0 THEN <<>>
  ELSE IF t[1].n >= k THEN <<Run(t[1].c, k)>>
       ELSE <<t[1]>> \o Prefix(Tail(t), k - t[1].n)

\* s + t
Concat(s, t) == Norm(s \o t)

\* \s
Whitespace == {" ", "\n"}

\* str.strip()
RECURSIVE LStrip(_)
LStrip(t) == IF t # <<>> /\ t[1].c \in Whitespace THEN LStrip(Tail(t)) ELSE t
RECURSIVE RStrip(_)
RStrip(t) ==
  IF t # <<>> /\ t[Len(t)].c \in Whitespace THEN RStrip(SubSeq(t, 1, Len(t) - 1)) ELSE t
Strip(t) == RStrip(LStrip(t))

\* The non-empty fields of str.split: maximal segments free of the
\* separator characters sep.  (text.split() yields exactly these;
\* text.split('.') also yields empty fields, which _simple_tokenize filters
\* out.)
RECURSIVE SplitOn(_, _, _)
SplitOn(t, sep, cur) ==
  IF t = <<>> THEN (IF cur = <<>> THEN <<>> ELSE <<cur>>)
  ELSE IF t[1].c \in sep
       THEN (IF cur = <<>> THEN <<>> ELSE <<cur>>) \o SplitOn(Tail(t), sep, <<>>)
       ELSE SplitOn(Tail(t), sep, Append(cur, t[1]))

RECURSIVE Flatten(_)
Flatten(ss) == IF ss = <<>> THEN <<>> ELSE ss[1] \o Flatten(Tail(ss))

\* " ".join(parts)
RECURSIVE JoinSpace(_)
JoinSpace(parts) ==
  IF parts = <<>> THEN <<>>
  ELSE IF Len(parts) = 1 THEN parts[1]
       ELSE Concat(Concat(parts[1], <<Run(" ", 1)>>), JoinSpace(Tail(parts)))

\* word in string.punctuation  (a substring test against
\* !"#$%&'()*+,-./:;<=>?@[\]^_`{|}~ ; over the characters of the model the
\* only substrings are the single characters "." ":" and "#")
InPunctuation(w) == Len(w) = 1 /\ w[1].n = 1 /\ w[1].c \in {".", ":", "#"}

\* ------------------------------------------------------------ TextAnalyzer
\* re.sub(r'\s+', ' ', text)
RECURSIVE CollapseWs(_)
CollapseWs(t) ==
  IF t = <<>> THEN <<>>
  ELSE IF t[1].c \in Whitespace
       THEN <<Run(" ", 1)>> \o CollapseWs(LStrip(t))
       ELSE <<t[1]>> \o CollapseWs(Tail(t))

\* re.sub(r'[^\w\s.,!?;:]', '', text)
IsKept(r) == r.c # "#"
RemoveSpecial(t) == Norm(SelectSeq(t, IsKept))

clean_text(text) ==
  IF text = <<>> THEN <<>> ELSE Strip(RemoveSpecial(CollapseWs(text)))

NonBlank(s) == Strip(s) # <<>>
StripAll(ss) == [i \in 1..Len(ss) |-> Strip(ss[i])]

simple_tokenize(text) ==
  [sentences |-> StripAll(SelectSeq(SplitOn(text, {"."}, <<>>), NonBlank)),
   words     |-> SplitOn(text, Whitespace, <<>>)]

\* nltk sent_tokenize (Punkt), over texts whose words are neither
\* abbreviations nor lower-case continuations: a sentence ends at a run of
\* full stops that is followed by whitespace and a further token; the last
\* sentence is right-stripped and dropped when empty.
RECURSIVE PunktSplit(_, _)
PunktSplit(t, cur) ==
  IF t = <<>> THEN (IF RStrip(cur) = <<>> THEN <<>> ELSE <<RStrip(cur)>>)
  ELSE IF t[1].c = "." /\ Len(t) >= 2 /\ t[2].c \in Whitespace /\ LStrip(Tail(t)) # <<>>
       THEN <<Append(cur, t[1])>> \o PunktSplit(LStrip(Tail(t)), <<>>)
       ELSE PunktSplit(Tail(t), Append(cur, t[1]))

sent_tokenize(text) == PunktSplit(text, <<>>)

\* nltk Treebank tokenizer on one whitespace-free chunk: ":" and "#" become
\* tokens of their own, a run of two or more full stops becomes one token,
\* a single full stop is split off only at the end of the sentence.
Flush(cur) == IF cur = <<>> THEN <<>> ELSE <<cur>>
Singles(c, n) == [i \in 1..n |-> <<Run(c, 1)>>]

RECURSIVE TreebankChunk(_, _, _)
TreebankChunk(runs, cur, final) ==
  IF runs = <<>> THEN Flush(cur)
  ELSE LET r == runs[1]
           rest == Tail(runs)
       IN IF r.c \in {":", "#"}
          THEN Flush(cur) \o Singles(r.c, r.n) \o TreebankChunk(rest, <<>>, final)
          ELSE IF r.c = "." /\ r.n >= 2
          THEN Flush(cur) \o <<<<r>>>> \o TreebankChunk(rest, <<>>, final)
          ELSE IF r.c = "." /\ rest = <<>> /\ final
          THEN Flush(cur) \o <<<<r>>>>
          ELSE TreebankChunk(rest, Append(cur, r), final)

TreebankSentence(s) ==
  LET chunks == SplitOn(s, Whitespace, <<>>)
  IN Flatten([i \in 1..Len(chunks) |->
                TreebankChunk(chunks[i], <<>>, i = Len(chunks))])

\* nltk word_tokenize: Treebank tokens of each Punkt sentence
word_tokenize(text) ==
  LET ss == sent_tokenize(text)
  IN Flatten([i \in 1..Len(ss) |-> TreebankSentence(ss[i])])


\* str.lower(), over the upper-case letters the model uses
LowerChar(c) ==
  CASE c = "A" -> "a"
    [] c = "D" -> "d"
    [] c = "F" -> "f"
    [] c = "P" -> "p"
    [] c = "S" -> "s"
    [] OTHER -> c
Lower(t) == Norm([i \in 1..Len(t) |-> Run(LowerChar(t[i].c), t[i].n)])

\* sum(len(word) for word in words)
RECURSIVE SumLen(_)
SumLen(ws) == IF ws = <<>> THEN 0 ELSE StrLen(ws[1]) + SumLen(Tail(ws))

\* a / b as the exact fraction; 0 is Zero
Div(a, b) == [num |-> a, den |-> b]
Zero == [num |-> 0, den |-> 1]

\* The tokenizer chain of basic_statistics (lines 88-95): word_tokenize and
\* sent_tokenize raise LookupError without the punkt data, which the
\* except branch turns into _simple_tokenize.
Tokenize(cleaned, nltk, punkt) ==
  IF nltk
  THEN IF punkt
       THEN [sentences |-> sent_tokenize(cleaned), words |-> word_tokenize(cleaned)]
       ELSE simple_tokenize(cleaned)
  ELSE simple_tokenize(cleaned)

NotPunctuation(w) == ~InPunctuation(w)

\* variant: len(sentences), without the default of 1
SentenceCountRaw(sentences) == Len(sentences)

\* len(sentences) if sentences else 1
SentenceCount(sentences) == IF sentences # <<>> THEN Len(sentences) ELSE 1

basic_statistics(text, nltk, punkt) ==
  IF text = <<>>
  THEN [word_count |-> 0, sentence_count |-> 0, character_count |-> 0,
        average_word_length |-> Zero, average_sentence_length |-> Zero]
  ELSE LET cleaned_text == clean_text(text)
           tok == Tokenize(cleaned_text, nltk, punkt)
           words == SelectSeq(tok.words, NotPunctuation)
           word_count == Len(words)
           sentence_count == SentenceCount(tok.sentences)
       IN [word_count |-> word_count,
           sentence_count |-> sentence_count,
           character_count |-> StrLen(cleaned_text),
           average_word_length |->
             IF word_count # 0 THEN Div(SumLen(words), word_count) ELSE Zero,
           average_sentence_length |->
             IF sentence_count # 0 THEN Div(word_count, sentence_count) ELSE Zero]


\* ---- stop words (TextAnalyzer.__init__, _setup_nltk)
FallbackStopWords ==
  {Str(<<"a">>), Str(<<"a", "n">>), Str(<<"t", "h", "e">>), Str(<<"a", "n", "d">>),
   Str(<<"o", "r">>), Str(<<"b", "u", "t">>), Str(<<"i", "n">>), Str(<<"o", "n">>),
   Str(<<"a", "t">>), Str(<<"t", "o">>), Str(<<"f", "o", "r">>), Str(<<"o", "f">>),
   Str(<<"w", "i", "t", "h">>)}

\* stopwords.words('english'): the corpus list, of which the model spells
\* the built-in words and a few more
CorpusStopWords ==
  FallbackStopWords \cup {Str(<<"i", "s">>), Str(<<"h", "e">>), Str(<<"i", "t">>),
                          Str(<<"w", "a", "s">>)}

\* nltk.data.find / nltk.download in _setup_nltk: a download is attempted
\* when nltk is installed and the data is missing, and it may or may not
\* fetch the data
DownloadOutcomes(nltk, present) == IF nltk /\ ~present THEN BOOLEAN ELSE {FALSE}
AfterDownload(present, fetched) == present \/ fetched

setup_nltk(nltk, stopdata) ==
  IF ~nltk THEN {}
  ELSE IF stopdata THEN CorpusStopWords ELSE FallbackStopWords

\* ---- keyword_extraction
RECURSIVE Occurrences(_, _)
Occurrences(w, ws) ==
  IF ws = <<>> THEN 0
  ELSE (IF ws[1] = w THEN 1 ELSE 0) + Occurrences(w, Tail(ws))

\* the keys of Counter(words), in insertion order
RECURSIVE Keys(_, _)
Keys(ws, seen) ==
  IF ws = <<>> THEN <<>>
  ELSE IF ws[1] \in seen THEN Keys(Tail(ws), seen)
       ELSE <<ws[1]>> \o Keys(Tail(ws), seen \cup {ws[1]})

\* sorted(items, key=itemgetter(1), reverse=True): stable, by decreasing count
RECURSIVE InsertByCount(_, _)
InsertByCount(item, sorted) ==
  IF sorted = <<>> THEN <<item>>
  ELSE IF sorted[1][2] >= item[2]
       THEN <<sorted[1]>> \o InsertByCount(item, Tail(sorted))
       ELSE <<item>> \o sorted

RECURSIVE SortByCount(_)
SortByCount(items) ==
  IF items = <<>> THEN <<>>
  ELSE InsertByCount(items[Len(items)], SortByCount(SubSeq(items, 1, Len(items) - 1)))

\* variant: the first top_n keys in order of first occurrence, unranked
most_common_unranked(words, top_n) ==
  LET keys == Keys(words, {})
      items == [i \in 1..Len(keys) |-> <<keys[i], Occurrences(keys[i], words)>>]
  IN SubSeq(items, 1, IF top_n < Len(items) THEN top_n ELSE Len(items))

\* FreqDist(words).most_common(top_n) and Counter(words).most_common(top_n):
\* FreqDist is a Counter, so both paths rank the same way
most_common(words, top_n) ==
  LET keys == Keys(words, {})
      items == [i \in 1..Len(keys) |-> <<keys[i], Occurrences(keys[i], words)>>]
      ranked == SortByCount(items)
  IN SubSeq(ranked, 1, IF top_n < Len(ranked) THEN top_n ELSE Len(ranked))

\* the tokens of keyword_extraction (lines 118-124)
KeywordTokens(lowered, nltk, punkt) ==
  IF nltk /\ punkt THEN word_tokenize(lowered) ELSE SplitOn(lowered, Whitespace, <<>>)

\* the words kept by the filter of lines 127-128
RetainedWords(text, nltk, punkt, stopset) ==
  LET cleaned_text == clean_text(text)
      tokens == KeywordTokens(Lower(cleaned_text), nltk, punkt)
      Retained(w) == w \notin stopset /\ ~InPunctuation(w) /\ StrLen(w) > 2
  IN SelectSeq(tokens, Retained)

keyword_extraction(text, top_n, nltk, punkt, stopset) ==
  IF text = <<>> THEN <<>>
  ELSE LET words == RetainedWords(text, nltk, punkt, stopset)
       IN IF words = <<>> THEN <<>> ELSE most_common(words, top_n)

\* ---- sentiment_analysis; polarity and subjectivity in hundredths
NeutralSentiment == [polarity |-> 0, subjectivity |-> 0, sentiment |-> "neutral"]

\* variant: the thresholds taken inclusively
sentiment_analysis_inclusive(text, textblob, scorer) ==
  IF ~textblob \/ text = <<>> THEN NeutralSentiment
  ELSE IF scorer.raises THEN NeutralSentiment
  ELSE [polarity |-> scorer.polarity,
        subjectivity |-> scorer.subjectivity,
        sentiment |-> IF scorer.polarity >= 10 THEN "positive"
                      ELSE IF scorer.polarity <= -10 THEN "negative"
                      ELSE "neutral"]

sentiment_analysis(text, textblob, scorer) ==
  IF ~textblob \/ text = <<>> THEN NeutralSentiment
  ELSE IF scorer.raises THEN NeutralSentiment
  ELSE [polarity |-> scorer.polarity,
        subjectivity |-> scorer.subjectivity,
        sentiment |-> IF scorer.polarity > 10 THEN "positive"
                      ELSE IF scorer.polarity < -10 THEN "negative"
                      ELSE "neutral"]

\* ---- readability_score, in hundredths
Vowels == {"a", "e", "i", "o", "u", "y"}

\* vowel characters that follow a non-vowel or start the text
RECURSIVE VowelStarts(_, _)
VowelStarts(t, prevVowel) ==
  IF t = <<>> THEN 0
  ELSE (IF t[1].c \in Vowels /\ ~prevVowel THEN 1 ELSE 0)
       + VowelStarts(Tail(t), t[1].c \in Vowels)

count_syllables(text) ==
  IF text = <<>> THEN 0
  ELSE LET t == Lower(text)
           starts == VowelStarts(t, FALSE)
           count == IF t[Len(t)].c = "e" THEN starts - 1 ELSE starts
       IN IF count = 0 THEN 1 ELSE count

\* variant: the score rounded but not clamped
FleschUnclamped(w, s, syl) ==
  LET num == 206835 * s * w - 1015 * w * w - 84600 * syl * s
      den == 1000 * s * w
  IN (100 * num + den \div 2) \div den

\* round(max(0, min(100, 206.835 - 1.015*(w/s) - 84.6*(syl/w))), 2)
FleschHundredths(w, s, syl) ==
  LET num == 206835 * s * w - 1015 * w * w - 84600 * syl * s
      den == 1000 * s * w
  IN IF num <= 0 THEN 0
     ELSE IF num >= 100 * den THEN 10000
     ELSE (100 * num + den \div 2) \div den

readability_score(text, nltk, punkt) ==
  IF text = <<>> THEN 0
  ELSE LET stats == basic_statistics(text, nltk, punkt)
       IN IF stats.sentence_count = 0 \/ stats.word_count = 0 THEN 0
          ELSE FleschHundredths(stats.word_count, stats.sentence_count,
                                count_syllables(text))


\* ------------------------------------------------------------- AIProcessor
FallbackChars == 200
ModelWindow == 1024
TopN == 10

\* a call either returns val or raises exc
Ok(v) == [exc |-> "none", val |-> v]
Raised(e) == [exc |-> e, val |-> <<>>]

\* __init__ and _setup_pipelines.  load says which steps of the try block
\* succeed: the transformers import, the summarization pipeline, the
\* question-answering pipeline.  The block is left at the first failure.
setup_pipelines(load) ==
  IF ~load.transformers
  THEN [summarizer |-> "None", qa_pipeline |-> "None"]
  ELSE IF ~load.summarization
  THEN [summarizer |-> "None", qa_pipeline |-> "None"]
  ELSE IF ~load.question_answering
  THEN [summarizer |-> "pipeline", qa_pipeline |-> "None"]
  ELSE [summarizer |-> "pipeline", qa_pipeline |-> "pipeline"]

Ellipsis == <<Run(".", 3)>>
SummaryLabel == Str(<<"S", "u", "m", "m", "a", "r", "y", ":", " ">>)

\* text[:200] + "..."
Truncated(text) == Concat(Prefix(text, FallbackChars), Ellipsis)

\* summarize_text.  model is the outcome of the call of self.summarizer;
\* calls lists the inputs the model was invoked on.
summarize_text(summarizer, text, nltk, punkt, model) ==
  IF summarizer = "None"
  THEN IF ~nltk
       THEN Ok(Truncated(text)) @@ [calls |-> <<>>]
       ELSE IF ~punkt
       THEN Raised("LookupError") @@ [calls |-> <<>>]
       ELSE LET sentences == sent_tokenize(text)
            IN Ok(IF Len(sentences) > 3
                  THEN JoinSpace(SubSeq(sentences, 1, 3))
                  ELSE Truncated(text)) @@ [calls |-> <<>>]
  ELSE LET input == IF StrLen(text) > ModelWindow THEN Prefix(text, ModelWindow) ELSE text
       IN IF model.raises
          THEN Ok(Concat(SummaryLabel, Truncated(input))) @@ [calls |-> <<input>>]
          ELSE Ok(model.summary_text) @@ [calls |-> <<input>>]

\* answers: the fixed guidance message, f"Error: {str(e)}", or the span
\* the model extracted
GuidanceAnswer == [kind |-> "guidance", text |-> <<>>]
ErrorAnswer == [kind |-> "error", text |-> <<>>]
SpanAnswer(t) == [kind |-> "span", text |-> t]

\* round(score, 3): score in ten-thousandths, the result in thousandths
Round3(score) == (score + 5) \div 10

\* variant: without the guard on the handle, so that calling the None
\* handle raises inside the try block
answer_question_unguarded(qa_pipeline, context, question, model) ==
  IF qa_pipeline = "None" \/ model.raises
  THEN Ok([answer |-> ErrorAnswer, score |-> 0])
  ELSE Ok([answer |-> SpanAnswer(model.answer), confidence |-> Round3(model.score)])

\* answer_question.  model is the outcome of the call of self.qa_pipeline.
answer_question(qa_pipeline, context, question, model) ==
  IF qa_pipeline = "None"
  THEN Ok([answer |-> GuidanceAnswer, confidence |-> 0])
  ELSE IF model.raises
       THEN Ok([answer |-> ErrorAnswer, score |-> 0])
       ELSE Ok([answer |-> SpanAnswer(model.answer), confidence |-> Round3(model.score)])

\* analyze_document; punkt and stopdata are the nltk data present once
\* TextAnalyzer() has run its downloads.
analyze_document(summarizer, text, nltk, punkt, stopdata, textblob, scorer, model) ==
  LET stop_words == setup_nltk(nltk, stopdata)
      analysis ==
        [basic_stats |-> basic_statistics(text, nltk, punkt),
         keywords    |-> keyword_extraction(text, TopN, nltk, punkt, stop_words),
         sentiment   |-> sentiment_analysis(text, textblob, scorer),
         readability |-> readability_score(text, nltk, punkt)]
      summary == summarize_text(summarizer, text, nltk, punkt, model)
  IN IF summary.exc # "none"
     THEN Raised(summary.exc)
     ELSE Ok(analysis @@ [summary |-> summary.val])


\* ---------------------------------------------------------- DocumentReader
\* DocumentReader.__init__: the list supported_formats
PdfExt == Str(<<".", "p", "d", "f">>)
DocxExt == Str(<<".", "d", "o", "c", "x">>)
TxtExt == Str(<<".", "t", "x", "t">>)

supported_formats_init(pdf_available, docx_available) ==
  (IF pdf_available THEN <<PdfExt>> ELSE <<>>)
    \o (IF docx_available THEN <<DocxExt>> ELSE <<>>)
    \o <<TxtExt>>

\* os.path.splitext(name)[1]: from the last full stop on, unless that full
\* stop only has full stops before it
RECURSIVE LastDot(_, _)
LastDot(t, i) ==
  IF i = 0 THEN 0 ELSE IF t[i].c = "." THEN i ELSE LastDot(t, i - 1)

SplitExt(name) ==
  LET d == LastDot(name, Len(name))
  IN IF d <= 1 THEN <<>>
     ELSE Concat(<<Run(".", 1)>>, SubSeq(name, d + 1, Len(name)))

\* os.path.splitext(file_path)[1].lower()
FileExt(file_path) == Lower(SplitExt(file_path))

InList(x, list) == \E i \in 1..Len(list) : list[i] = x

\* variant: the extension compared as written, without .lower()
is_supported_format_cased(file_path, formats) ==
  InList(SplitExt(file_path), formats)

is_supported_format(file_path, supported_formats) ==
  InList(FileExt(file_path), supported_formats)

\* the value a document property has when the document carries it
PropertyValue(key) ==
  IF key = "/Author" THEN Str(<<"a">>)
  ELSE IF key = "/Title" THEN Str(<<"t">>)
  ELSE Str(<<"s">>)

\* mapping.get(key, '')
Get(keys, key) == IF key \in keys THEN PropertyValue(key) ELSE <<>>

\* text += part + "\n" for every non-empty part
RECURSIVE JoinLines(_)
JoinLines(parts) ==
  IF parts = <<>> THEN <<>>
  ELSE IF parts[1] # <<>>
       THEN Concat(Concat(parts[1], <<Run("\n", 1)>>), JoinLines(Tail(parts)))
       ELSE JoinLines(Tail(parts))

\* _read_pdf.  PdfReader raises on a file that is not a PDF document;
\* pdf_reader.metadata is None when the document has no information
\* record, and .get on it raises AttributeError; both are re-raised as
\* Exception("Error reading PDF: ...").
read_pdf(file, pdf_available) ==
  IF ~pdf_available THEN Raised("ImportError")
  ELSE IF file.content.kind # "pdf" THEN Raised("Exception")
  ELSE IF ~file.content.info.present THEN Raised("Exception")
  ELSE Ok([text |-> Strip(JoinLines(file.content.pages)),
           metadata |-> [pages |-> Len(file.content.pages),
                         author |-> Get(file.content.info.keys, "/Author"),
                         title |-> Get(file.content.info.keys, "/Title"),
                         subject |-> Get(file.content.info.keys, "/Subject")],
           file_path |-> file.path])

\* _read_docx.  Document raises on a file that is not a word-processor
\* document; core_properties yields '' for a property that is not set.
read_docx(file, docx_available) ==
  IF ~docx_available THEN Raised("ImportError")
  ELSE IF file.content.kind # "docx" THEN Raised("Exception")
  ELSE Ok([text |-> Strip(JoinLines(file.content.paragraphs)),
           metadata |-> [pages |-> file.content.sections,
                         author |-> Get(file.content.props, "/Author"),
                         title |-> Get(file.content.props, "/Title"),
                         subject |-> Get(file.content.props, "/Subject")],
           file_path |-> file.path])

\* a file of another format read as text: its bytes are not valid UTF-8
AsText(content) ==
  IF content.kind = "txt" THEN content
  ELSE [kind |-> "txt", utf8 |-> <<>>, latin1 |-> Str(<<"#">>)]

\* _read_txt: the UTF-8 reading of the bytes, or their Latin-1 reading
\* when they are not valid UTF-8.  The title is os.path.basename.
read_txt(file) ==
  Ok([text |-> Strip(IF AsText(file.content).utf8 # <<>>
                     THEN AsText(file.content).utf8[1]
                     ELSE AsText(file.content).latin1),
      metadata |-> [pages |-> 1, author |-> <<>>,
                    title |-> file.path,
                    subject |-> <<>>],
      file_path |-> file.path])

read_document(file, pdf_available, docx_available) ==
  IF ~file.exists THEN Raised("FileNotFoundError")
  ELSE LET file_ext == FileExt(file.path)
       IN IF file_ext = PdfExt /\ pdf_available THEN read_pdf(file, pdf_available)
          ELSE IF file_ext = DocxExt /\ docx_available THEN read_docx(file, docx_available)
          ELSE IF file_ext = TxtExt THEN read_txt(file)
          ELSE Raised("ValueError")

\* ------------------------------------------------------------------ inputs
RunChoices ==
  {Run("a", n) : n \in {1, FallbackChars, ModelWindow}}
    \cup {Run(c, 1) : c \in {" ", ".", "#"}}

IsText(t) == \A i \in 1..(Len(t) - 1) : t[i].c # t[i + 1].c

Texts == {t \in UNION {[1..k -> RunChoices] : k \in 0..MaxRuns} : IsText(t)}

Questions == {Str(<<"a">>), Str(<<"a", " ", "a">>)}

\* what pipeline(...) and the import do at process start
LoadOutcomes ==
  [transformers : BOOLEAN, summarization : BOOLEAN, question_answering : BOOLEAN]

\* what the summarization model does when called
ModelSummaries == {Str(<<"a">>), Str(<<"a", " ", "a", ".">>)}
NotCalled == [raises |-> FALSE]
SummarizerOutcomes(handle) ==
  IF handle = "None" THEN {NotCalled}
  ELSE {[raises |-> TRUE, summary_text |-> <<>>]}
         \cup {[raises |-> FALSE, summary_text |-> m] : m \in ModelSummaries}

\* what the question-answering model does when called: an answer span of
\* the context with a score in ten-thousandths
Scores == {4, 1234, 9996}
QAOutcomes(handle, context) ==
  IF handle = "None" THEN {NotCalled}
  ELSE {[raises |-> TRUE, answer |-> <<>>, score |-> 0]}
         \cup {[raises |-> FALSE, answer |-> Prefix(context, 1), score |-> sc] : sc \in Scores}

\* what TextBlob(text).sentiment does when called, in hundredths
Polarities == {-11, -10, 0, 10, 11}
Subjectivities == {0, 100}
ScorerOutcomes(textblob, t) ==
  IF ~textblob \/ t = <<>> THEN {NotCalled}
  ELSE {[raises |-> TRUE, polarity |-> 0, subjectivity |-> 0]}
         \cup {[raises |-> FALSE, polarity |-> p, subjectivity |-> sj] :
                 p \in Polarities, sj \in Subjectivities}

\* file names (the directory part plays no role), and what a file holds
Paths ==
  {Str(<<"d", ".", "t", "x", "t">>), Str(<<"d", ".", "p", "d", "f">>),
   Str(<<"d", ".", "P", "D", "F">>), Str(<<"d", ".", "d", "o", "c", "x">>),
   Str(<<"d", ".", "m", "d">>), Str(<<"d">>)}

PageTexts == {<<>>, Str(<<"a">>)}
PageLists == UNION {[1..k -> PageTexts] : k \in 0..MaxPages}
PropertyKeys == {"/Author", "/Title", "/Subject"}

PdfContents ==
  {[kind |-> "pdf", pages |-> ps, info |-> [present |-> TRUE, keys |-> ks]] :
     ps \in PageLists, ks \in SUBSET PropertyKeys}
    \cup {[kind |-> "pdf", pages |-> ps, info |-> [present |-> FALSE, keys |-> {}]] :
            ps \in PageLists}

DocxContents ==
  {[kind |-> "docx", paragraphs |-> ps, sections |-> n, props |-> ks] :
     ps \in PageLists, n \in 1..MaxPages, ks \in {{}, PropertyKeys}}

TxtContents ==
  {[kind |-> "txt", utf8 |-> <<Str(<<" ", "a", "\n">>)>>, latin1 |-> Str(<<" ", "a", "\n">>)],
   [kind |-> "txt", utf8 |-> <<>>, latin1 |-> Str(<<"#", "a">>)]}

NoContent == [kind |-> "none"]
Contents == PdfContents \cup DocxContents \cup TxtContents

Files ==
  {[path |-> p, exists |-> TRUE, content |-> c] : p \in Paths, c \in Contents}
    \cup {[path |-> p, exists |-> FALSE, content |-> NoContent] : p \in Paths}

NoFile == [path |-> <<>>, exists |-> FALSE, content |-> NoContent]

\* ------------------------------------------------------------------- state
VARIABLES
  PDF_AVAILABLE,       \* document_reader.py module flag
  DOCX_AVAILABLE,      \* document_reader.py module flag
  supported_formats,   \* DocumentReader.supported_formats
  file,                \* the file the reader is asked for
  NLTK_AVAILABLE,      \* text_analyzer.py module flag
  TEXTBLOB_AVAILABLE,  \* text_analyzer.py module flag
  punkt_data,          \* nltk data 'tokenizers/punkt' is installed
  stopwords_data,      \* nltk data 'corpora/stopwords' is installed
  load,                \* which model-loading steps succeed at process start
  pc,                  \* "start" before AIProcessor() has run, "ready" between
                       \* calls, "returned" while the caller holds a result
  summarizer,          \* AIProcessor.summarizer: "None" or "pipeline"
  qa_pipeline,         \* AIProcessor.qa_pipeline: "None" or "pipeline"
  text,                \* the extracted document text the calls are made on
  result,              \* the last call: its name, what it raised or returned
  stop_words,          \* TextAnalyzer.stop_words of the analyzer object held
  file_path_label,     \* gui: the text of file_path_label
  current_document,    \* gui: DocumentAnalyzerGUI.current_document
  threads              \* gui: the _perform_analysis threads, in order of start

vars == <<PDF_AVAILABLE, DOCX_AVAILABLE, supported_formats, file,
          NLTK_AVAILABLE, TEXTBLOB_AVAILABLE, punkt_data, stopwords_data,
          load, pc, summarizer, qa_pipeline, text, result, stop_words,
          file_path_label, current_document, threads>>

env == <<NLTK_AVAILABLE, TEXTBLOB_AVAILABLE, load, text>>
nltk_data == <<punkt_data, stopwords_data>>
processor == <<summarizer, qa_pipeline>>
reader == <<PDF_AVAILABLE, DOCX_AVAILABLE, supported_formats, file>>
analyzer == <<stop_words>>
gui == <<file_path_label, current_document, threads>>

\* Python's None as the value of an attribute that otherwise holds a dict
None == [none |-> TRUE]

\* the window before any document is selected (gui.py:16, setup_gui)
NoDocumentSelected ==
  Str(<<"N", "o", " ", "d", "o", "c", "u", "m", "e", "n", "t", " ",
        "s", "e", "l", "e", "c", "t", "e", "d">>)
NoWindow ==
  /\ file_path_label = NoDocumentSelected
  /\ current_document = None
  /\ threads = <<>>

NoCall == [op |-> "none", exc |-> "none", val |-> <<>>]
Call(name, outcome) == [op |-> name] @@ outcome

Init ==
  /\ NLTK_AVAILABLE \in BOOLEAN
  /\ TEXTBLOB_AVAILABLE \in BOOLEAN
  /\ punkt_data \in BOOLEAN
  /\ stopwords_data \in BOOLEAN
  /\ ~NLTK_AVAILABLE => (~punkt_data /\ ~stopwords_data)
  /\ load \in LoadOutcomes
  /\ ~load.transformers => (~load.summarization /\ ~load.question_answering)
  /\ pc = "start"
  /\ summarizer = "None"
  /\ qa_pipeline = "None"
  /\ text \in Texts
  /\ result = NoCall
  /\ PDF_AVAILABLE = TRUE
  /\ DOCX_AVAILABLE = TRUE
  /\ supported_formats = supported_formats_init(TRUE, TRUE)
  /\ file = NoFile
  /\ stop_words = {}
  /\ NoWindow

\* AIProcessor()
Construct ==
  /\ pc = "start"
  /\ pc' = "returned"
  /\ summarizer' = setup_pipelines(load).summarizer
  /\ qa_pipeline' = setup_pipelines(load).qa_pipeline
  /\ result' = Call("__init__", Ok(<<>>))
  /\ UNCHANGED <<env, nltk_data, reader, analyzer, gui>>

\* variant: a failed model call drops the handle
SummarizeTextDropping ==
  /\ pc = "ready"
  /\ pc' = "returned"
  /\ \E model \in SummarizerOutcomes(summarizer) :
       /\ result' = Call("summarize_text",
                         summarize_text(summarizer, text, NLTK_AVAILABLE, punkt_data, model)
                           @@ [model |-> model])
       /\ summarizer' = IF model.raises THEN "None" ELSE summarizer
  /\ UNCHANGED <<env, nltk_data, qa_pipeline, reader, analyzer, gui>>

\* ai_processor.summarize_text(text)
SummarizeText ==
  /\ pc = "ready"
  /\ \E model \in SummarizerOutcomes(summarizer) :
       result' = Call("summarize_text",
                      summarize_text(summarizer, text, NLTK_AVAILABLE, punkt_data, model)
                        @@ [model |-> model])
  /\ pc' = "returned"
  /\ UNCHANGED <<env, nltk_data, processor, reader, analyzer, gui>>

\* ai_processor.answer_question(text, question)
AnswerQuestion ==
  /\ pc = "ready"
  /\ \E question \in Questions, model \in QAOutcomes(qa_pipeline, text) :
       result' = Call("answer_question",
                      answer_question(qa_pipeline, text, question, model))
  /\ pc' = "returned"
  /\ UNCHANGED <<env, nltk_data, processor, reader, analyzer, gui>>

\* ai_processor.analyze_document(text): TextAnalyzer() first fetches the
\* missing nltk data, then the analyses and the summary run
AnalyzeDocument ==
  /\ pc = "ready"
  /\ \E fetched \in DownloadOutcomes(NLTK_AVAILABLE, punkt_data) :
       punkt_data' = AfterDownload(punkt_data, fetched)
  /\ \E fetched \in DownloadOutcomes(NLTK_AVAILABLE, stopwords_data) :
       stopwords_data' = AfterDownload(stopwords_data, fetched)
  /\ \E scorer \in ScorerOutcomes(TEXTBLOB_AVAILABLE, text),
        model \in SummarizerOutcomes(summarizer) :
       result' = Call("analyze_document",
                      analyze_document(summarizer, text, NLTK_AVAILABLE, punkt_data',
                                       stopwords_data', TEXTBLOB_AVAILABLE, scorer, model))
  /\ pc' = "returned"
  /\ UNCHANGED <<env, processor, reader, analyzer, gui>>

\* TextAnalyzer().basic_statistics(text)
BasicStatistics ==
  /\ pc = "ready"
  /\ \E fetched \in DownloadOutcomes(NLTK_AVAILABLE, punkt_data) :
       punkt_data' = AfterDownload(punkt_data, fetched)
  /\ \E fetched \in DownloadOutcomes(NLTK_AVAILABLE, stopwords_data) :
       stopwords_data' = AfterDownload(stopwords_data, fetched)
  /\ result' = Call("basic_statistics",
                    Ok(basic_statistics(text, NLTK_AVAILABLE, punkt_data')))
  /\ pc' = "returned"
  /\ UNCHANGED <<env, processor, reader, analyzer, gui>>

\* the caller has used the result and is free to make the next call
Return ==
  /\ pc = "returned"
  /\ pc' = "ready"
  /\ result' = NoCall
  /\ UNCHANGED <<env, nltk_data, processor, reader, analyzer, gui>>

Next ==
  \/ Construct
  \/ Return
  \/ SummarizeText
  \/ AnswerQuestion
  \/ AnalyzeDocument
  \/ BasicStatistics

Spec == Init /\ [][Next]_vars

\* ---- the reader on its own: DocumentReader() has run
InitReader ==
  /\ PDF_AVAILABLE \in BOOLEAN
  /\ DOCX_AVAILABLE \in BOOLEAN
  /\ supported_formats = supported_formats_init(PDF_AVAILABLE, DOCX_AVAILABLE)
  /\ file \in Files
  /\ NLTK_AVAILABLE = FALSE
  /\ TEXTBLOB_AVAILABLE = FALSE
  /\ punkt_data = FALSE
  /\ stopwords_data = FALSE
  /\ load = [transformers |-> FALSE, summarization |-> FALSE, question_answering |-> FALSE]
  /\ pc = "ready"
  /\ summarizer = "None"
  /\ qa_pipeline = "None"
  /\ text = <<>>
  /\ result = NoCall
  /\ stop_words = {}
  /\ NoWindow

\* document_reader.read_document(file_path)
ReadDocument ==
  /\ pc = "ready"
  /\ pc' = "returned"
  /\ result' = Call("read_document", read_document(file, PDF_AVAILABLE, DOCX_AVAILABLE))
  /\ UNCHANGED <<env, nltk_data, processor, reader, analyzer, gui>>

\* document_reader.is_supported_format(file_path)
IsSupportedFormat ==
  /\ pc = "ready"
  /\ pc' = "returned"
  /\ result' = Call("is_supported_format",
                    Ok(is_supported_format(file.path, supported_formats)))
  /\ UNCHANGED <<env, nltk_data, processor, reader, analyzer, gui>>

\* the format handler called directly
ReadPdf ==
  /\ pc = "ready"
  /\ file.exists
  /\ pc' = "returned"
  /\ result' = Call("_read_pdf", read_pdf(file, PDF_AVAILABLE))
  /\ UNCHANGED <<env, nltk_data, processor, reader, analyzer, gui>>

NextReader ==
  \/ ReadDocument
  \/ IsSupportedFormat
  \/ ReadPdf
  \/ Return

SpecReader == InitReader /\ [][NextReader]_vars

\* ---- the analyzer on its own: one TextAnalyzer object and its calls
\* the words the analysed texts are made of: stop words of the built-in
\* list and of the corpus only, a short word, kept words of one and of
\* three syllables, a full stop and an ellipsis
AnalyzerWords ==
  {Str(<<"t", "h", "e">>), Str(<<"w", "a", "s">>), Str(<<"a", "t">>),
   Str(<<"c", "a", "t">>), Str(<<"b", "a", "n", "a", "n", "a">>),
   Str(<<".">>), Ellipsis}

AnalyzerTexts ==
  {JoinSpace(ws) : ws \in UNION {[1..k -> AnalyzerWords] : k \in 0..MaxWords}}

TopNs == 0..MaxWords

InitAnalyzer ==
  /\ NLTK_AVAILABLE \in BOOLEAN
  /\ TEXTBLOB_AVAILABLE \in BOOLEAN
  /\ punkt_data \in BOOLEAN
  /\ stopwords_data \in BOOLEAN
  /\ ~NLTK_AVAILABLE => (~punkt_data /\ ~stopwords_data)
  /\ text \in AnalyzerTexts
  /\ pc = "start"
  /\ stop_words = {}
  /\ NoWindow
  /\ result = NoCall
  /\ load = [transformers |-> FALSE, summarization |-> FALSE, question_answering |-> FALSE]
  /\ summarizer = "None"
  /\ qa_pipeline = "None"
  /\ PDF_AVAILABLE = TRUE
  /\ DOCX_AVAILABLE = TRUE
  /\ supported_formats = supported_formats_init(TRUE, TRUE)
  /\ file = NoFile

\* TextAnalyzer(): __init__ and _setup_nltk
ConstructAnalyzer ==
  /\ pc = "start"
  /\ \E fetched \in DownloadOutcomes(NLTK_AVAILABLE, punkt_data) :
       punkt_data' = AfterDownload(punkt_data, fetched)
  /\ \E fetched \in DownloadOutcomes(NLTK_AVAILABLE, stopwords_data) :
       stopwords_data' = AfterDownload(stopwords_data, fetched)
  /\ stop_words' = setup_nltk(NLTK_AVAILABLE, stopwords_data')
  /\ result' = Call("TextAnalyzer", Ok(<<>>))
  /\ pc' = "returned"
  /\ UNCHANGED <<env, processor, reader, gui>>

\* analyzer.readability_score(text)
ReadabilityScore ==
  /\ pc = "ready"
  /\ result' = Call("readability_score",
                    Ok(readability_score(text, NLTK_AVAILABLE, punkt_data)))
  /\ pc' = "returned"
  /\ UNCHANGED <<env, nltk_data, processor, reader, analyzer, gui>>

\* analyzer.keyword_extraction(text, top_n)
KeywordExtraction ==
  /\ pc = "ready"
  /\ \E top_n \in TopNs :
       result' = Call("keyword_extraction",
                      Ok(keyword_extraction(text, top_n, NLTK_AVAILABLE, punkt_data,
                                            stop_words))
                        @@ [top_n |-> top_n])
  /\ pc' = "returned"
  /\ UNCHANGED <<env, nltk_data, processor, reader, analyzer, gui>>

\* analyzer.sentiment_analysis(text); scorer is what TextBlob does
SentimentAnalysis ==
  /\ pc = "ready"
  /\ \E scorer \in ScorerOutcomes(TEXTBLOB_AVAILABLE, text) :
       result' = Call("sentiment_analysis",
                      Ok(sentiment_analysis(text, TEXTBLOB_AVAILABLE, scorer))
                        @@ [scorer |-> scorer])
  /\ pc' = "returned"
  /\ UNCHANGED <<env, nltk_data, processor, reader, analyzer, gui>>

NextAnalyzer ==
  \/ ConstructAnalyzer
  \/ ReadabilityScore
  \/ KeywordExtraction
  \/ SentimentAnalysis
  \/ Return

SpecAnalyzer == InitAnalyzer /\ [][NextAnalyzer]_vars

\* ---- summaries of texts of several sentences
\* the sentences the summarized texts are made of: a short one and one of
\* more than 200 characters
SummarySentences == {Str(<<"a", ".">>), <<Run("a", FallbackChars), Run(".", 1)>>}

SummaryTexts ==
  {JoinSpace(ss) : ss \in UNION {[1..k -> SummarySentences] : k \in 0..MaxSentences}}

InitSummary ==
  /\ NLTK_AVAILABLE \in BOOLEAN
  /\ TEXTBLOB_AVAILABLE = FALSE
  /\ punkt_data \in BOOLEAN
  /\ stopwords_data = FALSE
  /\ ~NLTK_AVAILABLE => ~punkt_data
  /\ load \in LoadOutcomes
  /\ ~load.transformers => (~load.summarization /\ ~load.question_answering)
  /\ pc = "start"
  /\ summarizer = "None"
  /\ qa_pipeline = "None"
  /\ text \in SummaryTexts
  /\ result = NoCall
  /\ PDF_AVAILABLE = TRUE
  /\ DOCX_AVAILABLE = TRUE
  /\ supported_formats = supported_formats_init(TRUE, TRUE)
  /\ file = NoFile
  /\ stop_words = {}
  /\ NoWindow

NextSummary ==
  \/ Construct
  \/ SummarizeText
  \/ Return

SpecSummary == InitSummary /\ [][NextSummary]_vars

\* ---- the desktop window (gui.py): handlers run one at a time on the
\* main loop, the steps of the _perform_analysis threads come in between
\* the files the dialog offers: a text file, a word-processor document, a
\* PDF without information record, and a file of another format
GuiFiles ==
  {[path |-> Str(<<"d", ".", "t", "x", "t">>), exists |-> TRUE,
    content |-> [kind |-> "txt", utf8 |-> <<Str(<<" ", "a", "\n">>)>>,
                 latin1 |-> Str(<<" ", "a", "\n">>)]],
   [path |-> Str(<<"d", ".", "d", "o", "c", "x">>), exists |-> TRUE,
    content |-> [kind |-> "docx", paragraphs |-> <<Str(<<"a">>), Str(<<"a">>)>>,
                 sections |-> 1, props |-> {}]],
   [path |-> Str(<<"d", ".", "p", "d", "f">>), exists |-> TRUE,
    content |-> [kind |-> "pdf", pages |-> <<Str(<<"a">>)>>,
                 info |-> [present |-> FALSE, keys |-> {}]]],
   [path |-> Str(<<"d", ".", "m", "d">>), exists |-> TRUE,
    content |-> [kind |-> "txt", utf8 |-> <<Str(<<"#", "a">>)>>,
                 latin1 |-> Str(<<"#", "a">>)]]}

FileAt(file_path) == CHOOSE f \in GuiFiles : f.path = file_path

\* what read_document gives for the path now
Extraction(file_path) == read_document(FileAt(file_path), PDF_AVAILABLE, DOCX_AVAILABLE)

\* DocumentAnalyzerGUI(root) has run: DocumentReader(), AIProcessor()
InitGui ==
  /\ PDF_AVAILABLE = TRUE
  /\ DOCX_AVAILABLE \in BOOLEAN
  /\ supported_formats = supported_formats_init(PDF_AVAILABLE, DOCX_AVAILABLE)
  /\ file = NoFile
  /\ NLTK_AVAILABLE \in BOOLEAN
  /\ TEXTBLOB_AVAILABLE = FALSE
  /\ punkt_data = FALSE
  /\ stopwords_data = NLTK_AVAILABLE
  /\ load = [transformers |-> FALSE, summarization |-> FALSE, question_answering |-> FALSE]
  /\ pc = "ready"
  /\ summarizer = "None"
  /\ qa_pipeline = "None"
  /\ text = <<>>
  /\ result = NoCall
  /\ stop_words = {}
  /\ NoWindow

\* browse_document: the dialog returns a path, or '' when it is cancelled
BrowseDocument ==
  /\ \E file_path \in {<<>>} \cup {f.path : f \in GuiFiles} :
       /\ file_path # <<>> =>
            (file_path_label' = file_path /\ current_document' = None)
       /\ file_path = <<>> => UNCHANGED <<file_path_label, current_document>>
       /\ result' = Call("browse_document", Ok(file_path))
  /\ UNCHANGED <<env, nltk_data, processor, reader, analyzer, pc, threads>>

\* analyze_document (the button handler): starts a thread for the path
\* the label shows
StartAnalysis ==
  /\ Len(threads) < MaxAnalyses
  /\ IF file_path_label = NoDocumentSelected
     THEN /\ result' = Call("gui.analyze_document", Raised("Please select a document first"))
          /\ UNCHANGED threads
     ELSE IF ~is_supported_format(file_path_label, supported_formats)
     THEN /\ result' = Call("gui.analyze_document", Raised("Unsupported file format"))
          /\ UNCHANGED threads
     ELSE /\ result' = Call("gui.analyze_document", Ok(file_path_label))
          /\ threads' = Append(threads, [at |-> "read", file_path |-> file_path_label,
                                         document |-> None, analyzed |-> <<>>])
  /\ UNCHANGED <<env, nltk_data, processor, reader, analyzer, pc,
                 file_path_label, current_document>>

\* _perform_analysis, line 114: document = read_document(file_path)
PerformRead(i) ==
  /\ threads[i].at = "read"
  /\ LET r == Extraction(threads[i].file_path)
     IN threads' = [threads EXCEPT ![i] =
                      IF r.exc = "none" THEN [@ EXCEPT !.at = "store", !.document = r.val]
                      ELSE [@ EXCEPT !.at = "failed"]]
  /\ UNCHANGED <<env, nltk_data, processor, reader, analyzer, pc, result,
                 file_path_label, current_document>>

\* _perform_analysis, line 115: self.current_document = document
PerformStore(i) ==
  /\ threads[i].at = "store"
  /\ current_document' = threads[i].document
  /\ threads' = [threads EXCEPT ![i].at = "analyze"]
  /\ UNCHANGED <<env, nltk_data, processor, reader, analyzer, pc, result,
                 file_path_label>>

\* _perform_analysis, line 117: analyze_document(document['text'])
PerformAnalyze(i) ==
  /\ threads[i].at = "analyze"
  /\ \E fetched \in DownloadOutcomes(NLTK_AVAILABLE, punkt_data) :
       punkt_data' = AfterDownload(punkt_data, fetched)
  /\ UNCHANGED stopwords_data
  /\ LET a == analyze_document(summarizer, threads[i].document.text, NLTK_AVAILABLE,
                               punkt_data', stopwords_data, TEXTBLOB_AVAILABLE,
                               NotCalled, NotCalled)
     IN threads' = [threads EXCEPT ![i].at = IF a.exc = "none" THEN "done" ELSE "failed",
                                   ![i].analyzed = <<threads[i].document.text>>]
  /\ UNCHANGED <<env, processor, reader, analyzer, pc, result,
                 file_path_label, current_document>>

\* answer_question (the button handler)
AskQuestion ==
  /\ \E question \in {<<>>} \cup Questions :
       result' =
         Call("gui.answer_question",
              IF current_document = None
              THEN Raised("Please analyze a document first")
              ELSE IF question = <<>>
              THEN Raised("Please enter a question")
              ELSE answer_question(qa_pipeline, current_document.text, question, NotCalled)
                     @@ [document |-> current_document, selected |-> file_path_label])
  /\ UNCHANGED <<env, nltk_data, processor, reader, analyzer, pc, gui>>

NextGui ==
  \/ BrowseDocument
  \/ StartAnalysis
  \/ \E i \in 1..Len(threads) : PerformRead(i)
  \/ \E i \in 1..Len(threads) : PerformStore(i)
  \/ \E i \in 1..Len(threads) : PerformAnalyze(i)
  \/ AskQuestion

SpecGui == InitGui /\ [][NextGui]_vars

\* ------------------------------------------------------------------ claims
ReportFields == {"basic_stats", "keywords", "sentiment", "readability", "summary"}

\* C1: analyze_document never raises, whatever the text and whichever
\* capabilities are available, and returns a report with basic_stats,
\* keywords, sentiment, readability and summary.
C1_AnalyzeNeverFails ==
  result.op = "analyze_document" =>
    /\ result.exc = "none"
    /\ DOMAIN result.val = ReportFields

\* C2: every result of answer_question carries an answer and a confidence
\* field, and when the loaded model raises the confidence is 0.
C2_FailureHasZeroConfidence ==
  result.op = "answer_question" =>
    /\ result.exc = "none"
    /\ {"answer", "confidence"} \subseteq DOMAIN result.val
    /\ result.val.answer.kind = "error" => result.val.confidence = 0

\* C3: with the question-answering handle absent, answer_question returns
\* the fixed guidance answer with confidence 0 for every context and
\* question, and does not raise.
C3_AbsentGivesGuidance ==
  (result.op = "answer_question" /\ qa_pipeline = "None") =>
    /\ result.exc = "none"
    /\ result.val = [answer |-> GuidanceAnswer, confidence |-> 0]

\* the summarizer loaded, the question-answerer did not, and a question
\* is asked about a non-empty text
C3_Witness ==
  /\ result.op = "answer_question"
  /\ qa_pipeline = "None"
  /\ summarizer = "pipeline"
  /\ text # <<>>
  /\ result.val.confidence = 0

\* C4: with no summarizer and a text of fewer than three sentences,
\* summarize_text returns the text unchanged when it has at most 200
\* characters, a truncation followed by an ellipsis only when it is longer,
\* and never the empty string for a non-empty text.
C4_ShortTextUnchanged ==
  (/\ result.op = "summarize_text"
   /\ summarizer = "None"
   /\ Len(sent_tokenize(text)) < 3) =>
    /\ result.exc = "none"
    /\ StrLen(text) <= FallbackChars => result.val = text
    /\ StrLen(text) > FallbackChars => result.val = Truncated(text)
    /\ text # <<>> => result.val # <<>>

\* C5: the summary has at most as many words as the text, in every state
\* of the summarizer.
C5_SummaryNeverExpands ==
  (result.op = "summarize_text" /\ result.exc = "none") =>
    basic_statistics(result.val, NLTK_AVAILABLE, punkt_data).word_count
      <= basic_statistics(text, NLTK_AVAILABLE, punkt_data).word_count

\* C6: once the processor is constructed each handle is absent or present,
\* and no call changes either handle.
C6_HandlesFixed ==
  /\ [](pc # "start" => {summarizer, qa_pipeline} \subseteq {"None", "pipeline"})
  /\ [][pc # "start" => (summarizer' = summarizer /\ qa_pipeline' = qa_pipeline)]_vars

\* a summarize_text call whose model raised has returned
C6_Witness ==
  /\ result.op = "summarize_text"
  /\ summarizer = "pipeline"
  /\ qa_pipeline = "None"
  /\ result.calls = <<text>>
  /\ result.val = Concat(SummaryLabel, Truncated(text))

\* C7: after construction each handle is present exactly when its own
\* model initialised, independently of the other model, and construction
\* does not raise.
C7_HandlesIndependent ==
  pc # "start" =>
    /\ summarizer = "pipeline" <=> (load.transformers /\ load.summarization)
    /\ qa_pipeline = "pipeline" <=> (load.transformers /\ load.question_answering)
    /\ result.op = "__init__" => result.exc = "none"

\* C8: for an existing path read_document raises the unsupported-format
\* error only for an extension other than .txt, .pdf, .docx, and raises the
\* dependency error for .pdf or .docx whose library is missing.
C8_DistinctFailureKinds ==
  (result.op = "read_document" /\ file.exists) =>
    /\ result.exc = "ValueError" => FileExt(file.path) \notin {TxtExt, PdfExt, DocxExt}
    /\ (FileExt(file.path) = PdfExt /\ ~PDF_AVAILABLE) => result.exc = "ImportError"
    /\ (FileExt(file.path) = DocxExt /\ ~DOCX_AVAILABLE) => result.exc = "ImportError"

\* C9: reading a readable PDF succeeds with pages equal to the number of
\* pages and author, title, subject each the property's value, or the empty
\* string when the document does not carry it or carries no information
\* record at all.
C9_PdfMetadataDefaults ==
  (/\ result.op = "read_document"
   /\ file.exists
   /\ FileExt(file.path) = PdfExt
   /\ PDF_AVAILABLE
   /\ file.content.kind = "pdf") =>
    /\ result.exc = "none"
    /\ result.val.metadata.pages = Len(file.content.pages)
    /\ \A k \in PropertyKeys \ file.content.info.keys :
         /\ k = "/Author" => result.val.metadata.author = <<>>
         /\ k = "/Title" => result.val.metadata.title = <<>>
         /\ k = "/Subject" => result.val.metadata.subject = <<>>

IsRatio(r) == r.den > 0 /\ r.num >= 0

\* C10: basic_statistics of a non-empty text has word_count >= 0,
\* sentence_count >= 1 and non-negative averages with non-zero
\* denominators, with either tokenizer; of the empty text, five zeros.
C10_StatisticsWellDefined ==
  result.op = "basic_statistics" =>
    /\ result.exc = "none"
    /\ IsRatio(result.val.average_word_length)
    /\ IsRatio(result.val.average_sentence_length)
    /\ text # <<>> => (result.val.word_count >= 0 /\ result.val.sentence_count >= 1)
    /\ text = <<>> =>
         /\ result.val.word_count = 0
         /\ result.val.sentence_count = 0
         /\ result.val.character_count = 0
         /\ result.val.average_word_length.num = 0
         /\ result.val.average_sentence_length.num = 0

\* a text of stripped characters and whitespace only, preferred tokenizer
C10_Witness ==
  /\ result.op = "basic_statistics"
  /\ NLTK_AVAILABLE /\ punkt_data
  /\ text = Str(<<"#", " ">>)
  /\ result.val.word_count = 0
  /\ result.val.sentence_count = 1

\* C11: readability_score is within [0, 100] for every text, is 0 for the
\* empty text, and is 0 whenever the word count or the sentence count of
\* the text is zero; it does not raise.
C11_ReadabilityInRange ==
  result.op = "readability_score" =>
    /\ result.exc = "none"
    /\ result.val \in 0..10000
    /\ text = <<>> => result.val = 0
    /\ (\/ basic_statistics(text, NLTK_AVAILABLE, punkt_data).word_count = 0
        \/ basic_statistics(text, NLTK_AVAILABLE, punkt_data).sentence_count = 0)
         => result.val = 0

\* a three-syllable word as the whole text: the formula gives a negative
\* score and 0 is returned
C11_Witness ==
  /\ result.op = "readability_score"
  /\ text = Str(<<"b", "a", "n", "a", "n", "a">>)
  /\ count_syllables(text) = 3
  /\ result.val = 0

Terms(kw) == {kw[i][1] : i \in 1..Len(kw)}

\* C12: keyword_extraction(text, top_n) returns at most top_n pairs with
\* distinct terms, each frequency the number of occurrences of the term
\* among the retained words, in non-increasing order of frequency, and no
\* retained word left out is more frequent than a returned one; with nltk
\* (FreqDist) and without it (Counter).
C12_KeywordsRanked ==
  result.op = "keyword_extraction" =>
    LET kw == result.val
        words == RetainedWords(text, NLTK_AVAILABLE, punkt_data, stop_words)
    IN /\ result.exc = "none"
       /\ Len(kw) <= result.top_n
       /\ \A i, j \in 1..Len(kw) : kw[i][1] = kw[j][1] => i = j
       /\ \A i \in 1..Len(kw) : kw[i][2] = Occurrences(kw[i][1], words)
       /\ \A i, j \in 1..Len(kw) : i < j => kw[i][2] >= kw[j][2]
       /\ \A k \in 1..Len(words) :
            words[k] \notin Terms(kw) =>
              \A i \in 1..Len(kw) : Occurrences(words[k], words) <= kw[i][2]

\* the more frequent of two kept words occurs second in the text and is
\* the one returned for top_n = 1, on the FreqDist path
C12_Witness ==
  /\ result.op = "keyword_extraction"
  /\ NLTK_AVAILABLE
  /\ text = JoinSpace(<<Str(<<"c", "a", "t">>), Str(<<"b", "a", "n", "a", "n", "a">>),
                        Str(<<"b", "a", "n", "a", "n", "a">>)>>)
  /\ result.top_n = 1
  /\ result.val = <<<<Str(<<"b", "a", "n", "a", "n", "a">>), 2>>>>

\* C13: no term returned by keyword_extraction is a stop word, a token made
\* only of punctuation characters (of any length), or a token of length 2
\* or less; the empty text or an empty set of retained words gives the
\* empty list, and the call does not raise.
C13_KeywordsFiltered ==
  result.op = "keyword_extraction" =>
    /\ result.exc = "none"
    /\ \A w \in Terms(result.val) :
         /\ w \notin stop_words
         /\ \E i \in 1..Len(w) : w[i].c \notin {".", ":", "#"}
         /\ StrLen(w) > 2
    /\ (\/ text = <<>>
        \/ RetainedWords(text, NLTK_AVAILABLE, punkt_data, stop_words) = <<>>)
         => result.val = <<>>

\* C14: every result of sentiment_analysis has label positive exactly when
\* its polarity is above 0.1, negative exactly when it is below -0.1 and
\* neutral otherwise; when TextBlob is missing, the text is empty or the
\* scorer raises, the result is polarity 0, subjectivity 0, neutral; the
\* call never raises.
C14_SentimentLabel ==
  result.op = "sentiment_analysis" =>
    /\ result.exc = "none"
    /\ result.val.sentiment = "positive" <=> result.val.polarity > 10
    /\ result.val.sentiment = "negative" <=> result.val.polarity < -10
    /\ result.val.sentiment = "neutral" <=> result.val.polarity \in -10..10
    /\ (~TEXTBLOB_AVAILABLE \/ text = <<>> \/ result.scorer.raises)
         => result.val = NeutralSentiment
    /\ (TEXTBLOB_AVAILABLE /\ text # <<>> /\ ~result.scorer.raises)
         => /\ result.val.polarity = result.scorer.polarity
            /\ result.val.subjectivity = result.scorer.subjectivity

\* the scorer gives a polarity of exactly 0.1 and the label is neutral
C14_Witness ==
  /\ result.op = "sentiment_analysis"
  /\ TEXTBLOB_AVAILABLE
  /\ text # <<>>
  /\ ~result.scorer.raises
  /\ result.scorer.polarity = 10
  /\ result.val.sentiment = "neutral"

\* C15: with the summarizer present, the model is invoked once, on the text
\* cut to its first 1024 characters, and when it raises summarize_text
\* returns exactly the first 200 characters of that input followed by an
\* ellipsis.
C15_ModelFailureFallback ==
  (result.op = "summarize_text" /\ summarizer = "pipeline") =>
    /\ result.exc = "none"
    /\ Len(result.calls) = 1
    /\ StrLen(result.calls[1]) <= ModelWindow
    /\ result.calls[1] = Prefix(text, StrLen(result.calls[1]))
    /\ StrLen(text) <= ModelWindow => result.calls[1] = text
    /\ result.model.raises => result.val = Truncated(result.calls[1])

\* C16: with the summarizer absent, summarize_text returns the first three
\* sentences joined by single spaces when the tokenizer yields more than
\* three sentences, and otherwise (three sentences or fewer, or no
\* tokenizer) the first 200 characters followed by an ellipsis; one of the
\* two is returned in every state of the tokenizer.
C16_HeuristicSummary ==
  (result.op = "summarize_text" /\ summarizer = "None") =>
    /\ result.exc = "none"
    /\ result.val =
         IF NLTK_AVAILABLE /\ punkt_data /\ Len(sent_tokenize(text)) > 3
         THEN JoinSpace(SubSeq(sent_tokenize(text), 1, 3))
         ELSE Truncated(text)

\* C17: once TextAnalyzer() has run, whenever the stop-word corpus could
\* not be loaded (its data is missing, or nltk is not installed) stop_words
\* is the built-in list of thirteen words and is not empty; and no
\* analysis call changes stop_words.
C17_StopWordsFallback ==
  /\ [](pc # "start" =>
          (~(NLTK_AVAILABLE /\ stopwords_data) =>
             (stop_words = FallbackStopWords /\ stop_words # {})))
  /\ [][pc # "start" => stop_words' = stop_words]_vars

\* C18: supported_formats is .txt, plus .pdf when the PDF library loaded,
\* plus .docx when the docx library loaded; for an existing path
\* read_document raises the unsupported-format error exactly when
\* is_supported_format(path) is false, the extension being lower-cased in
\* both; for a missing path it raises the not-found error whatever the
\* extension.
C18_SupportAgrees ==
  /\ {supported_formats[i] : i \in 1..Len(supported_formats)}
       = {TxtExt} \cup (IF PDF_AVAILABLE THEN {PdfExt} ELSE {})
                  \cup (IF DOCX_AVAILABLE THEN {DocxExt} ELSE {})
  /\ (result.op = "read_document" /\ file.exists) =>
       (result.exc = "ValueError" <=> ~is_supported_format(file.path, supported_formats))
  /\ (result.op = "read_document" /\ ~file.exists) =>
       result.exc = "FileNotFoundError"
  /\ result.op = "is_supported_format" =>
       result.val = (Lower(SplitExt(file.path))
                       \in {supported_formats[i] : i \in 1..Len(supported_formats)})

\* an upper-case .PDF path with the PDF library loaded is supported and is
\* not rejected as unsupported
C18_Witness ==
  /\ result.op = "read_document"
  /\ file.exists
  /\ file.path = Str(<<"d", ".", "P", "D", "F">>)
  /\ PDF_AVAILABLE
  /\ ~DOCX_AVAILABLE
  /\ is_supported_format(file.path, supported_formats)
  /\ result.exc # "ValueError"

\* C19: in the window, under every interleaving of browsing, analysing and
\* asking, a question is answered from the extraction of the path the
\* label shows; a document stored by an analysis is the document of the
\* selected path, never that of an earlier selection; and every analysis
\* reads the document first and analyses its text as extracted.
C19_CurrentDocumentIsSelected ==
  /\ current_document # None =>
       /\ current_document.file_path = file_path_label
       /\ current_document = Extraction(file_path_label).val
  /\ (result.op = "gui.answer_question" /\ result.exc = "none") =>
       /\ result.document.file_path = result.selected
       /\ result.document = Extraction(result.selected).val
  /\ \A i \in 1..Len(threads) :
       threads[i].analyzed # <<>> =>
         /\ Extraction(threads[i].file_path).exc = "none"
         /\ threads[i].analyzed = <<Extraction(threads[i].file_path).val.text>>

====
